---- MODULE Spec2Model ----
(***************************************************************************)
(* Model of the connection/session layer of pixi-boilerplate:              *)
(* src/WebSockets/WebSocketService.ts (class WebSocketService) and the     *)
(* GlobalState store it talks to (src/components/Toolbar.ts).              *)
(*                                                                         *)
(* Execution is single-threaded: every action below is one JavaScript task *)
(* (one event handler or one API call) run to completion.                  *)
(***************************************************************************)
EXTENDS Integers, Sequences, FiniteSets, TLC

(***************************************************************************)
(* Bounds of the model.                                                    *)
(***************************************************************************)
MaxSends == 3          \* send() calls the application makes
MaxSockets == 2        \* size of the pool of WebSocket objects that can be alive
MaxAdds == 3           \* add-listener calls whose closure the application keeps
MaxFrames == 4         \* responses the server sends during a bootstrap

SocketIds == 1..MaxSockets

(***************************************************************************)
(* JavaScript values.  Every value is a tagged record so that values of    *)
(* different JavaScript types can be compared.                             *)
(***************************************************************************)
Undef == [t |-> "undefined"]
Null == [t |-> "null"]
Num(n) == [t |-> "number", n |-> n]
Str(s) == [t |-> "string", s |-> s]
Arr(items) == [t |-> "array", items |-> items]
Obj(fields) == [t |-> "object", f |-> fields]
Bool(b) == [t |-> "boolean", b |-> b]
NaN == [t |-> "number", nan |-> TRUE]

\* o.name : undefined when o has no such property (o is not null/undefined)
Get(o, name) ==
    IF o.t = "object" /\ name \in DOMAIN o.f THEN o.f[name] ELSE Undef

\* JavaScript truthiness
Truthy(v) ==
    CASE v.t = "undefined" -> FALSE
      [] v.t = "null" -> FALSE
      [] v.t = "number" -> v # NaN /\ v.n # 0
      [] v.t = "boolean" -> v.b
      [] v.t = "string" -> v.s # ""
      [] OTHER -> TRUE

\* a || b
JsOr(a, b) == IF Truthy(a) THEN a ELSE b

IsArray(v) == v.t = "array"

IsNumber(v) == v.t = "number" /\ v # NaN

\* a - b and a >= b on numbers; NaN when an operand is not a number, and a
\* comparison with NaN is false.
JsMinus(a, b) == IF IsNumber(a) /\ IsNumber(b) THEN Num(a.n - b.n) ELSE NaN
JsGe(a, b) == IsNumber(a) /\ IsNumber(b) /\ a.n >= b.n

\* A string as the sequence of its characters.
Chars(cs) == [t |-> "string", s |-> cs]
Digits == [c \in {"0", "1", "2", "3", "4", "5", "6", "7", "8", "9"} |->
            CASE c = "0" -> 0 [] c = "1" -> 1 [] c = "2" -> 2 [] c = "3" -> 3
              [] c = "4" -> 4 [] c = "5" -> 5 [] c = "6" -> 6 [] c = "7" -> 7
              [] c = "8" -> 8 [] c = "9" -> 9]

\* parseInt(x) of a sequence of characters: the value of the longest prefix of
\* decimal digits, NaN when there is none.
RECURSIVE DigitsValue(_, _, _)
DigitsValue(cs, i, acc) ==
    IF i > Len(cs) \/ cs[i] \notin DOMAIN Digits THEN acc
    ELSE DigitsValue(cs, i + 1, 10 * acc + Digits[cs[i]])
parseInt(cs) ==
    IF cs = <<>> \/ cs[1] \notin DOMAIN Digits THEN NaN
    ELSE Num(DigitsValue(cs, 1, 0))

\* str.split("x"): the pieces between the occurrences of the separator.
RECURSIVE SplitFrom(_, _, _, _)
SplitFrom(cs, i, piece, done) ==
    IF i > Len(cs) THEN Append(done, piece)
    ELSE IF cs[i] = "x" THEN SplitFrom(cs, i + 1, <<>>, Append(done, piece))
    ELSE SplitFrom(cs, i + 1, Append(piece, cs[i]), done)
Split(cs) == SplitFrom(cs, 1, <<>>, <<>>)

\* seq[i] of an array: undefined past the end.
At(seq, i) == IF i \in 1..Len(seq) THEN seq[i] ELSE Undef

(***************************************************************************)
(* Wire texts.  JSON.stringify produces a text that JSON.parse reads back; *)
(* a text that is not JSON makes JSON.parse throw a SyntaxError.           *)
(***************************************************************************)
JSONStringify(v) == [json |-> v]
NotJson == [garbage |-> "<html>"]
JSONParse(text) ==
    IF "json" \in DOMAIN text
    THEN [ok |-> TRUE, value |-> text.json]
    ELSE [ok |-> FALSE]

SessionExpired == "401 Session Expired"

VARIABLES
    socks,            \* readyState of every WebSocket object of the pool
    cur,              \* this.socket
    isConnected,      \* this.isConnected
    queue,            \* this.queue
    listeners,        \* this.listeners
    reconnectTimers,  \* pending setTimeout(() => this.connect(), reconnectDelay)
    sent,             \* texts handed to socket.send, in order
    nSends,           \* number of send() calls made by the application
    hung,             \* the onopen drain loop cannot terminate
    betSteps,         \* the store's bet-step configuration
    logoutHook,       \* window.logoutUser is installed
    logoutCalls,      \* invocations of window.logoutUser by the last task
    fired,            \* handler invocations made by the last task, in order
    lifecycle,        \* last lifecycle event handled: Connecting, Open, Closed
    onceInvoked,      \* keys whose registered once-wrapper has already run
    instances,        \* WebSocketService objects constructed so far
    store,            \* GlobalState attributes and the gameStarted flag
    registries,       \* the store's listener arrays
    closures,         \* unsubscribe closures the application holds, in order of return
    storeFired,       \* store listener invocations made by the last task, in order
    storeSeen,        \* the store as each of these invocations found it
    storeThrew,       \* an exception escaped from a store function in the last task
    boot,             \* the bootstrap: promises, timers, splash screen, start button
    lastOp            \* the task that produced this state

vars == <<socks, cur, isConnected, queue, listeners, reconnectTimers, sent,
          nSends, hung, betSteps, logoutHook, logoutCalls, fired, lifecycle,
          onceInvoked, instances, store, registries, closures, storeFired,
          storeSeen, storeThrew, boot, lastOp>>

(***************************************************************************)
(* The service object as a value, so that a handler's nested calls can be  *)
(* composed.  WS is the object at the start of a task: the per-task        *)
(* outputs (fired, logoutCalls) start empty.                               *)
(***************************************************************************)
WS ==
    [socks |-> socks, cur |-> cur, isConnected |-> isConnected,
     queue |-> queue, listeners |-> listeners,
     reconnectTimers |-> reconnectTimers, sent |-> sent, hung |-> hung,
     betSteps |-> betSteps, logoutHook |-> logoutHook,
     instances |-> instances, store |-> store, registries |-> registries,
     closures |-> closures, logoutCalls |-> 0, fired |-> <<>>,
     storeFired |-> <<>>, storeSeen |-> <<>>, storeThrew |-> FALSE,
     boot |-> [boot EXCEPT !.resolved = "none"]]

Commit(w) ==
    /\ socks' = w.socks
    /\ cur' = w.cur
    /\ isConnected' = w.isConnected
    /\ queue' = w.queue
    /\ listeners' = w.listeners
    /\ reconnectTimers' = w.reconnectTimers
    /\ sent' = w.sent
    /\ hung' = w.hung
    /\ betSteps' = w.betSteps
    /\ logoutHook' = w.logoutHook
    /\ logoutCalls' = w.logoutCalls
    /\ fired' = w.fired
    /\ instances' = w.instances
    /\ store' = w.store
    /\ registries' = w.registries
    /\ closures' = w.closures
    /\ storeFired' = w.storeFired
    /\ storeSeen' = w.storeSeen
    /\ storeThrew' = w.storeThrew
    /\ boot' = w.boot

reconnectDelay == 1000

(***************************************************************************)
(* WebSocketService: connection                                            *)
(***************************************************************************)
\* Faulty variant: readyState <= OPEN, and the flag not consulted.
isSocketConnected_UpToOpen(w) == w.socks[w.cur] \in {"CONNECTING", "OPEN"}

isSocketConnected(w) == w.isConnected /\ w.socks[w.cur] = "OPEN"

\* Faulty variant: a command sent while the socket is not open is dropped.
send_DropsUnlessConnected(w, event, data) ==
    IF w.isConnected /\ w.socks[w.cur] = "OPEN"
    THEN [w EXCEPT !.sent = Append(@, JSONStringify(data))]
    ELSE w

send(w, event, data) ==
    LET msg == JSONStringify(data) IN
    IF w.isConnected /\ w.socks[w.cur] = "OPEN"
    THEN [w EXCEPT !.sent = Append(@, msg)]
    ELSE [w EXCEPT !.queue = Append(@, [event |-> event, data |-> data])]

\* Faulty variant of the loop below: the queue is iterated (forEach) and every
\* entry transmitted, but no entry is removed.
Drain_KeepsQueue(w) ==
    IF w.queue = <<>> THEN w
    ELSE IF ~(w.isConnected /\ w.socks[w.cur] = "OPEN") THEN [w EXCEPT !.hung = TRUE]
    ELSE [w EXCEPT !.sent = @ \o [i \in 1..Len(w.queue) |-> JSONStringify(w.queue[i].data)]]

\* Faulty variant of the loop below: pop() instead of shift().
RECURSIVE Drain_Lifo(_)
Drain_Lifo(w) ==
    IF w.queue = <<>> THEN w
    ELSE IF ~(w.isConnected /\ w.socks[w.cur] = "OPEN") THEN [w EXCEPT !.hung = TRUE]
    ELSE LET n == Len(w.queue) IN
         Drain_Lifo(send([w EXCEPT !.queue = SubSeq(@, 1, n - 1)],
                         w.queue[n].event, w.queue[n].data))

\* while (queue.length > 0) { msg = queue.shift(); if (msg) send(msg.event, msg.data) }
\* An entry is an object, hence truthy.  If send() cannot transmit it puts the
\* entry back and the loop never ends.
RECURSIVE Drain(_)
Drain(w) ==
    IF w.queue = <<>> THEN w
    ELSE IF ~(w.isConnected /\ w.socks[w.cur] = "OPEN") THEN [w EXCEPT !.hung = TRUE]
    ELSE Drain(send([w EXCEPT !.queue = Tail(@)],
                    Head(w.queue).event, Head(w.queue).data))

onopen(w) == Drain([w EXCEPT !.isConnected = TRUE])

\* Faulty variant: a socket that never opened is not retried.
onclose_OnlyIfWasConnected(w) ==
    [w EXCEPT !.isConnected = FALSE,
              !.reconnectTimers = IF w.isConnected THEN Append(@, reconnectDelay) ELSE @]

onclose(w) ==
    [w EXCEPT !.isConnected = FALSE,
              !.reconnectTimers = Append(@, reconnectDelay)]

\* WebSocket.close() on this.socket: a socket that is connecting or open starts
\* closing; on a closing or closed socket the call does nothing.
SocketClose(w) ==
    [w EXCEPT !.socks[w.cur] = IF @ \in {"CONNECTING", "OPEN"} THEN "CLOSING" ELSE @]

\* Faulty variant: the error handler also reconnects, as the close handler does.
onerror_AlsoReconnects(w) ==
    IF {i \in SocketIds : w.socks[i] = "FREE"} = {} THEN SocketClose(w)
    ELSE LET id == CHOOSE i \in SocketIds : w.socks[i] = "FREE" IN
         [w EXCEPT !.socks = [i \in SocketIds |->
                                 IF i = id THEN "CONNECTING"
                                 ELSE IF i = w.cur /\ w.socks[i] = "CLOSED" THEN "FREE"
                                 ELSE w.socks[i]],
                   !.cur = id]

onerror(w) == SocketClose(w)

FreeIds(w) == {i \in SocketIds : w.socks[i] = "FREE"}

\* this.socket = new WebSocket(url).  A closed socket that this.socket no longer
\* refers to is garbage and its slot of the pool is reused.
connect(w) ==
    LET id == CHOOSE i \in FreeIds(w) : \A j \in FreeIds(w) : i <= j IN
    [w EXCEPT !.socks = [i \in SocketIds |->
                            IF i = id THEN "CONNECTING"
                            ELSE IF i = w.cur /\ w.socks[i] = "CLOSED" THEN "FREE"
                            ELSE w.socks[i]],
              !.cur = id]

\* WebSocketService.getInstance(): the constructor, which connects, runs only
\* when no instance exists yet.
getInstance(w) ==
    IF w.instances = 0 THEN connect([w EXCEPT !.instances = 1]) ELSE w

(***************************************************************************)
(* Outbound payloads: the k-th send() call of the application carries the  *)
(* sequence number k, so that transmissions can be told apart.             *)
(***************************************************************************)
Payload(event, n) == Obj([operation |-> Str(event), seq |-> Num(n)])

Keys == {"k", "info"}

\* The keys the bootstrap registers handlers for.
BootKeys == {"getbalance", "minesweeper_game_load", "your_game_load"}
AllKeys == Keys \cup BootKeys

NoHandler == [kind |-> "none"]

(***************************************************************************)
(* GlobalState: the session state store                                    *)
(***************************************************************************)
DEFAULT_ROWS == 6
DEFAULT_COLS == 5
DEFAULT_BALANCE == 1000000
DEFAULT_STAKE == 1
DEFAULT_TABLE_ID == "STGMS101"

\* The store as the module leaves it when it is loaded.
GlobalState ==
    [token |-> Null,
     total_rows |-> Num(DEFAULT_ROWS),
     total_cols |-> Num(DEFAULT_COLS),
     current_row |-> Num(DEFAULT_ROWS - 1),
     game_matrix |-> Arr(<<>>),
     balance |-> Num(DEFAULT_BALANCE),
     stakeAmount |-> Num(DEFAULT_STAKE),
     roundId |-> Null,
     reward |-> Num(0),
     table_id |-> Str(DEFAULT_TABLE_ID),
     gameStarted |-> FALSE]

\* A game matrix.
Matrix == Arr(<<Arr(<<Str("safe"), Str("mine")>>)>>)

Registries ==
    {"gridDimensionChangeListeners", "gameStartedListeners", "gameEndedListeners",
     "balanceChangeListeners", "pendingGameRestoreListeners",
     "pendingGameRestoreCompleteListeners"}

\* Store listeners.  l1 and l2 return; lThrow throws.
StoreListeners == {"l1", "l2", "lThrow"}
ThrowingListeners == {"lThrow"}

\* a !== b
StrictNotEqual(a, b) == a # b \/ a = NaN

\* Faulty variant: no try/catch around the listener, so the first exception
\* ends the iteration and escapes to the caller.
RECURSIVE ForEachTry_NoCatch(_, _, _, _)
ForEachTry_NoCatch(w, reg, args, i) ==
    IF i > Len(w.registries[reg]) THEN w
    ELSE LET l == w.registries[reg][i]
             w1 == [w EXCEPT !.storeFired =
                        Append(@, [reg |-> reg, cb |-> l, args |-> args]),
                             !.storeSeen = Append(@, w.store)]
         IN IF l \in ThrowingListeners THEN [w1 EXCEPT !.storeThrew = TRUE]
            ELSE ForEachTry_NoCatch(w1, reg, args, i + 1)

\* listeners.forEach(listener => { try { listener(...args) } catch (error) {...} })
\* from index i on.
RECURSIVE ForEachTry(_, _, _, _)
ForEachTry(w, reg, args, i) ==
    IF i > Len(w.registries[reg]) THEN w
    ELSE LET l == w.registries[reg][i]
             w1 == [w EXCEPT !.storeFired =
                        Append(@, [reg |-> reg, cb |-> l, args |-> args]),
                             !.storeSeen = Append(@, w.store)]
         IN ForEachTry(w1, reg, args, i + 1)         \* a throw of l is caught

\* Faulty variant: the started listeners fire whenever the flag is set to true.
setGameStarted_FiresOnEveryTrue(w, started) ==
    LET wasStarted == w.store.gameStarted
        w1 == [w EXCEPT !.store.gameStarted = started]
        w2 == IF started THEN ForEachTry(w1, "gameStartedListeners", <<>>, 1) ELSE w1
    IN IF ~started /\ wasStarted
       THEN ForEachTry(w2, "gameEndedListeners", <<>>, 1) ELSE w2

setGameStarted(w, started) ==
    LET wasStarted == w.store.gameStarted
        w1 == [w EXCEPT !.store.gameStarted = started]
        w2 == IF started /\ ~wasStarted
              THEN ForEachTry(w1, "gameStartedListeners", <<>>, 1) ELSE w1
    IN IF ~started /\ wasStarted
       THEN ForEachTry(w2, "gameEndedListeners", <<>>, 1) ELSE w2

triggerBalanceChange(w, newBalance) ==
    ForEachTry(w, "balanceChangeListeners", <<newBalance>>, 1)

setBalance(w, balance) ==
    LET previousBalance == w.store.balance
        w1 == [w EXCEPT !.store.balance = balance]
    IN IF StrictNotEqual(previousBalance, balance)
       THEN triggerBalanceChange(w1, balance) ELSE w1

\* Faulty variant: a change of the rows alone is not notified.
setGridDimensions_ColsOnly(w, cols, rows) ==
    LET prevCols == w.store.total_cols
        w1 == [w EXCEPT !.store.total_cols = cols, !.store.total_rows = rows]
    IN IF StrictNotEqual(prevCols, cols)
       THEN ForEachTry(w1, "gridDimensionChangeListeners", <<cols, rows>>, 1) ELSE w1

setGridDimensions(w, cols, rows) ==
    LET prevCols == w.store.total_cols
        prevRows == w.store.total_rows
        w1 == [w EXCEPT !.store.total_cols = cols, !.store.total_rows = rows]
    IN IF StrictNotEqual(prevCols, cols) \/ StrictNotEqual(prevRows, rows)
       THEN ForEachTry(w1, "gridDimensionChangeListeners", <<cols, rows>>, 1) ELSE w1

setStakeAmount(w, amount) == [w EXCEPT !.store.stakeAmount = amount]

setRoundId(w, roundId) == [w EXCEPT !.store.roundId = roundId]

\* Faulty variant: moving the row also clears the reward.
setCurrentRow_ClearsReward(w, row) ==
    [w EXCEPT !.store.current_row = row, !.store.reward = Num(0)]

setCurrentRow(w, row) == [w EXCEPT !.store.current_row = row]

setGameMatrix(w, matrix) == [w EXCEPT !.store.game_matrix = matrix]

setReward(w, newReward) == [w EXCEPT !.store.reward = newReward]

setToken(w, token) == [w EXCEPT !.store.token = token]

\* listeners.push(callback); return () => {...}.  The closure that is returned
\* is recorded with the array and the callback it has captured.
Subscribe(w, reg, callback) ==
    [w EXCEPT !.registries[reg] = Append(@, callback),
              !.closures = Append(@, [reg |-> reg, cb |-> callback, called |-> FALSE])]

addGameStartedListener(w, callback) == Subscribe(w, "gameStartedListeners", callback)
addGameEndedListener(w, callback) == Subscribe(w, "gameEndedListeners", callback)
addBalanceChangeListener(w, callback) == Subscribe(w, "balanceChangeListeners", callback)
addGridDimensionChangeListener(w, callback) ==
    Subscribe(w, "gridDimensionChangeListeners", callback)
addPendingGameRestoreListener(w, listener) ==
    Subscribe(w, "pendingGameRestoreListeners", listener)
addPendingGameRestoreCompleteListener(w, listener) ==
    Subscribe(w, "pendingGameRestoreCompleteListeners", listener)

\* Array.prototype.indexOf: the first position that holds x; positions are
\* counted from 1 here, so 0 stands for JavaScript's -1.
IndexOf(seq, x) ==
    IF \E i \in 1..Len(seq) : seq[i] = x
    THEN CHOOSE i \in 1..Len(seq) : seq[i] = x /\ \A j \in 1..(i - 1) : seq[j] # x
    ELSE 0

\* seq.splice(index, 1)
Splice(seq, index) ==
    [i \in 1..(Len(seq) - 1) |-> IF i < index THEN seq[i] ELSE seq[i + 1]]

\* The unsubscribe closure: index = listeners.indexOf(callback);
\* if (index > -1) listeners.splice(index, 1)
Unsubscribe(w, k) ==
    LET c == w.closures[k]
        index == IndexOf(w.registries[c.reg], c.cb)
        w1 == [w EXCEPT !.closures[k].called = TRUE]
    IN IF index > 0 THEN [w1 EXCEPT !.registries[c.reg] = Splice(@, index)] ELSE w1

\* triggerPendingGameRestore = () => { console.log(...) }: the function logs
\* and returns; it does not read pendingGameRestoreListeners.
triggerPendingGameRestore(w) == w

(***************************************************************************)
(* WebSocketService: event router                                          *)
(*                                                                         *)
(* A registered handler is either a callback given to on() or the wrapper  *)
(* closure that once() builds around a callback.                           *)
(***************************************************************************)
Plain(cb) == [kind |-> "plain", cb |-> cb]
OnceWrapper(event, cb) == [kind |-> "once", cb |-> cb, event |-> event]

\* Faulty variant: a key that has a handler keeps it.
on_KeepsFirst(w, event, h) ==
    IF w.listeners[event] = NoHandler THEN [w EXCEPT !.listeners[event] = h] ELSE w

on(w, event, h) == [w EXCEPT !.listeners[event] = h]

off(w, event) == [w EXCEPT !.listeners[event] = NoHandler]

once(w, event, cb) == on(w, event, OnceWrapper(event, cb))

(***************************************************************************)
(* The bootstrap: balance retrieval, pending-round check, restoration.     *)
(* Two entry points exist: setupBalanceAndStartButton (main.ts) and        *)
(* executeMainFlow.  A promise continuation runs as a microtask of the     *)
(* task that resolves the promise, so it is part of that task.             *)
(***************************************************************************)
START_BUTTON_DELAY == 500
PENDING_GAME_RESTORE_DELAY == 500
RESTORE_TRIGGER_DELAY == 500
SPLASH_FALLBACK_DELAY == 5000
SPLASH_FADE_DELAY == 500

NotStarted ==
    [flow |-> "none",            \* the entry point that has run
     awaiting |-> FALSE,         \* the pending-check promise of the registered
                                 \* handler is awaited and unresolved
     awaiter |-> "none",         \* the 'getbalance' handler that awaits it
     react |-> FALSE,            \* the React-mode setup has run
     balanceResolved |-> FALSE,  \* the promise of getBalance() is resolved
     timers |-> <<>>,            \* pending setTimeout callbacks
     startButtons |-> 0,         \* start buttons created
     splashRemoved |-> FALSE,
     hideCalls |-> 0,            \* calls of hideSplash()
     soundFails |-> FALSE,       \* SoundManager.playBackground() throws
     frames |-> 0,               \* responses the server has sent
     resolved |-> "none"]        \* value given to resolve() by the last task

SetTimeout(w, name, delay) ==
    [w EXCEPT !.boot.timers = Append(@, [name |-> name, delay |-> delay])]

\* Faulty variant: hideSplash() is called whether or not the splash is gone.
removeSplashScreen_Unguarded(w) ==
    [w EXCEPT !.boot.hideCalls = @ + 1, !.boot.splashRemoved = TRUE]

\* removeSplashScreen of executeMainFlow:
\* if (splashRemoved) return; hideSplash(); splashRemoved = true
removeSplashScreen(w) ==
    IF w.boot.splashRemoved THEN w
    ELSE [w EXCEPT !.boot.hideCalls = @ + 1, !.boot.splashRemoved = TRUE]

\* Faulty variant: no fallback timer is set when a pending game was found.
AfterPendingCheck_NoFallback(w, hasPendingGame) ==
    IF w.boot.flow = "main"
    THEN SetTimeout(w, "startButton", START_BUTTON_DELAY)
    ELSE IF ~hasPendingGame THEN removeSplashScreen(w)
    ELSE w

\* What follows `await checkForPendingGames()` / `await checkAndHandlePendingGames()`.
\* In executeMainFlow an exception of playBackground() after the splash was
\* removed is caught by the catch block, which calls removeSplashScreen() again.
AfterPendingCheck(w, hasPendingGame) ==
    IF w.boot.flow = "main"
    THEN IF w.boot.awaiter = "react"
         THEN SetTimeout(w, "removeSplashChild", SPLASH_FADE_DELAY)
         ELSE SetTimeout(w, "startButton", START_BUTTON_DELAY)
    ELSE IF ~hasPendingGame
         THEN IF w.boot.soundFails
              THEN removeSplashScreen(removeSplashScreen(w))
              ELSE removeSplashScreen(w)
         ELSE SetTimeout(w, "splashFallback", SPLASH_FALLBACK_DELAY)

\* resolve(value) of the pending-check promise: the first call settles the
\* promise and releases the code that awaits it; a later call does nothing.
Resolve(w, value) ==
    LET w1 == [w EXCEPT !.boot.resolved = IF value THEN "true" ELSE "false"] IN
    IF w.boot.awaiting
    THEN AfterPendingCheck([w1 EXCEPT !.boot.awaiting = FALSE], value)
    ELSE w1

GameLoadQuery(operation, tableId) ==
    Obj([operation |-> Str(operation), data |-> Obj([tableId |-> tableId])])

\* The promise executor of checkForPendingGames (main.ts): send, then on.
checkForPendingGames(w) ==
    LET w1 == send(w, "minesweeper_game_load",
                   GameLoadQuery("minesweeper_game_load", w.store.table_id))
    IN [on(w1, "minesweeper_game_load", Plain("gameLoadMain"))
            EXCEPT !.boot.awaiting = TRUE]

\* The promise executor of checkPendingGames (executeMainFlow): send, then on.
checkPendingGames(w) ==
    LET w1 == send(w, "your_game_load",
                   GameLoadQuery("your_game_load", w.store.table_id))
    IN [on(w1, "your_game_load", Plain("gameLoadFlow"))
            EXCEPT !.boot.awaiting = TRUE]

\* const [cols, rows] = gameData.gridOption.split("x").map(x => parseInt(x))
GridOf(gridOption) ==
    LET pieces == Split(gridOption.s)
        nums == [i \in 1..Len(pieces) |-> parseInt(pieces[i])]
    IN [cols |-> At(nums, 1), rows |-> At(nums, 2)]

\* Faulty variant: the row is stored as the server reports it.
InvertedRow_AsReported(totalRows, currentRow) == currentRow

\* GlobalState.total_rows - 1 - gameData.currentRow
InvertedRow(totalRows, currentRow) ==
    JsMinus(JsMinus(totalRows, Num(1)), currentRow)

\* Faulty variant: the first element of rowRewards is taken.
RewardOf_First(gameData) ==
    LET rowRewards == Get(gameData, "rowRewards") IN
    IF Truthy(rowRewards) /\ IsArray(rowRewards) /\ Len(rowRewards.items) > 0
    THEN JsOr(rowRewards.items[1], Num(0))
    ELSE Num(0)

\* rowRewards[rowRewards.length - 1] || 0, when rowRewards is a non-empty array
RewardOf(gameData) ==
    LET rowRewards == Get(gameData, "rowRewards") IN
    IF Truthy(rowRewards) /\ IsArray(rowRewards) /\ Len(rowRewards.items) > 0
    THEN JsOr(rowRewards.items[Len(rowRewards.items)], Num(0))
    ELSE Num(0)

restorePendingGame(w, gameData) ==
    LET w1 == IF Truthy(Get(gameData, "revealedMatrix"))
              THEN setGameMatrix(w, Get(gameData, "revealedMatrix")) ELSE w
        w2 == IF Truthy(Get(gameData, "gridOption"))
              THEN setGridDimensions(w1, GridOf(Get(gameData, "gridOption")).cols,
                                     GridOf(Get(gameData, "gridOption")).rows)
              ELSE w1
        w3 == IF Truthy(Get(gameData, "betAmount"))
              THEN setStakeAmount(w2, Get(gameData, "betAmount")) ELSE w2
        w4 == setRoundId(w3, Get(gameData, "roundId"))
        w5 == IF Get(gameData, "currentRow") # Undef
              THEN setCurrentRow(w4, InvertedRow(w4.store.total_rows,
                                                 Get(gameData, "currentRow")))
              ELSE w4
        w6 == setReward(w5, RewardOf(gameData))
        w7 == setGameStarted(w6, TRUE)
    IN SetTimeout(w7, "restoreMain", PENDING_GAME_RESTORE_DELAY)

\* Faulty variant: an empty round id is accepted.
hasValidRoundId_AcceptsEmpty(res) ==
    /\ Get(res, "roundId") # Undef
    /\ Get(res, "roundId") # Null

\* res?.roundId && res?.roundId !== null && res?.roundId !== ''
hasValidRoundId(res) ==
    /\ Truthy(Get(res, "roundId"))
    /\ Get(res, "roundId") # Null
    /\ Get(res, "roundId") # Str("")

\* backendCurrentRow >= (totalRows - 1) || res?.gameOver === true
isGameCompleted(w, res) ==
    LET backendCurrentRow == JsOr(Get(res, "currentRow"), Num(0))
        totalRows == JsOr(w.store.total_rows, Num(6))
    IN \/ JsGe(backendCurrentRow, JsMinus(totalRows, Num(1)))
       \/ Get(res, "gameOver") = Bool(TRUE)

\* ws.on('minesweeper_game_load', (res) => {...}) of checkForPendingGames
gameLoadMain(w, res) ==
    IF Get(res, "status") = Str("400") THEN Resolve(w, FALSE)
    ELSE IF Get(res, "status") = Str("200 OK")
    THEN IF Truthy(Get(res, "hasExistingGame"))
         THEN IF isGameCompleted(w, res) \/ ~hasValidRoundId(res)
              THEN Resolve(w, FALSE)
              ELSE Resolve(restorePendingGame(w, res), TRUE)
         ELSE Resolve(w, FALSE)
    ELSE Resolve(w, FALSE)

\* ws.on('your_game_load', (res) => {...}) of checkPendingGames
gameLoadFlow(w, res) ==
    IF Get(res, "status") = Str("400") THEN Resolve(w, FALSE)
    ELSE IF Get(res, "status") = Str("200 OK")
    THEN IF Truthy(Get(res, "hasExistingGame"))
         THEN IF ~hasValidRoundId(res)
              THEN Resolve(w, FALSE)
              ELSE Resolve(SetTimeout(w, "restoreFlow", RESTORE_TRIGGER_DELAY), TRUE)
         ELSE Resolve(w, FALSE)
    ELSE Resolve(w, FALSE)

\* Faulty variant: the balance field is not tested.
getbalanceMain_Unguarded(w, res) ==
    [checkForPendingGames(setBalance(w, Get(res, "balance")))
        EXCEPT !.boot.awaiter = "main"]

\* ws.on('getbalance', async (res) => {...}) of setupBalanceAndStartButton
getbalanceMain(w, res) ==
    IF Get(res, "balance") # Undef
    THEN [checkForPendingGames(setBalance(w, Get(res, "balance")))
            EXCEPT !.boot.awaiter = "main"]
    ELSE w

\* ws.on('getbalance', async (res) => {...}) of handleReactSplashScreen: what
\* follows its `await checkForPendingGames()` is removeSplashScreen().
getbalanceReact(w, res) ==
    IF Get(res, "balance") # Undef
    THEN [checkForPendingGames(setBalance(w, Get(res, "balance")))
            EXCEPT !.boot.awaiter = "react"]
    ELSE w

\* ws.on('getbalance', (res) => {...}) of getBalance, and what follows
\* `await getBalance()` in executeMainFlow when resolve() settles the promise.
getbalanceFlow(w, res) ==
    IF Get(res, "balance") # Undef
    THEN LET w1 == setBalance(w, Get(res, "balance")) IN
         IF w1.boot.balanceResolved THEN w1
         ELSE checkPendingGames([w1 EXCEPT !.boot.balanceResolved = TRUE])
    ELSE w

BalanceQuery == Obj([operation |-> Str("getbalance")])

\* setupBalanceAndStartButton: ws.on('getbalance', ...); ws.send('getbalance', ...)
setupBalanceAndStartButton(w) ==
    send(on([w EXCEPT !.boot.flow = "main"], "getbalance", Plain("getbalanceMain")),
         "getbalance", BalanceQuery)

\* handleReactSplashScreen after its `await Promise.all([...])`:
\* ws.on('getbalance', ...); ws.send('getbalance', ...)
handleReactSplashScreen(w) ==
    send(on([w EXCEPT !.boot.react = TRUE], "getbalance", Plain("getbalanceReact")),
         "getbalance", BalanceQuery)

\* initializeCoreGame in React mode, from the end of the await in
\* handleReactSplashScreen on: the function returns, handleReactModeSetup
\* returns, and setupBalanceAndStartButton runs, all in microtasks of one task.
initializeCoreGame(w) == setupBalanceAndStartButton(handleReactSplashScreen(w))

\* The restore-complete listener is registered, then executeMainFlow runs up
\* to its first await: getBalance() does ws.on('getbalance', ...) and
\* ws.send('getbalance', ...).
executeMainFlow(w) ==
    LET w1 == [w EXCEPT !.boot.flow = "flow",
                        !.registries["pendingGameRestoreCompleteListeners"] =
                            Append(@, "removeSplashSoon")]
    IN send(on(w1, "getbalance", Plain("getbalanceFlow")), "getbalance", BalanceQuery)

\* The body of a callback that belongs to the bootstrap.
HandlerBody(w, cb, arg) ==
    CASE cb = "getbalanceMain" -> getbalanceMain(w, arg)
      [] cb = "getbalanceReact" -> getbalanceReact(w, arg)
      [] cb = "getbalanceFlow" -> getbalanceFlow(w, arg)
      [] cb = "gameLoadMain" -> gameLoadMain(w, arg)
      [] cb = "gameLoadFlow" -> gameLoadFlow(w, arg)
      [] cb = "hChain" -> on(w, "k", Plain("h2"))
      [] OTHER -> w

\* Application callbacks.  h1 and h2 record their argument and return; hThrow
\* records its argument and throws; hChain, registered for the key "k",
\* records its argument and registers h2 for that key with on().
Callbacks == {"h1", "h2", "hThrow"}
Throwing == {"hThrow"}

\* Running a callback: the service after it, and whether it threw.
RunCallback(w, cb, arg, via) ==
    [w |-> HandlerBody([w EXCEPT !.fired = Append(@, [cb |-> cb, arg |-> arg, via |-> via])],
                       cb, arg),
     threw |-> cb \in Throwing]

\* onceCallback = (data) => { callback(data); this.off(event); }
CallHandler(w, h, arg) ==
    IF h.kind = "once"
    THEN LET r == RunCallback(w, h.cb, arg, h.kind) IN
         IF r.threw THEN r ELSE [w |-> off(r.w, h.event), threw |-> FALSE]
    ELSE RunCallback(w, h.cb, arg, h.kind)

\* msg.data && msg.data.status === "401 Session Expired"
IsExpiry(msg) ==
    /\ Truthy(Get(msg, "data"))
    /\ Get(Get(msg, "data"), "status") = Str(SessionExpired)

\* msg.operation === "info" && msg.mineSweeperAmounts && Array.isArray(msg.mineSweeperAmounts)
IsInfoWithSteps(msg) ==
    /\ Get(msg, "operation") = Str("info")
    /\ Truthy(Get(msg, "mineSweeperAmounts"))
    /\ IsArray(Get(msg, "mineSweeperAmounts"))

\* msg.event || msg.operation
EventKey(msg) == JsOr(Get(msg, "event"), Get(msg, "operation"))

\* this.listeners.has(eventKey)
Has(w, key) ==
    /\ key.t = "string"
    /\ key.s \in DOMAIN w.listeners
    /\ w.listeners[key.s] # NoHandler

\* msg.data || msg
HandlerArg(msg) == JsOr(Get(msg, "data"), msg)

\* if (eventKey && this.listeners.has(eventKey)) this.listeners.get(eventKey)?.(msg.data || msg)
\* An exception of the handler is caught by onmessage's try/catch.
Dispatch(w, msg) ==
    IF Truthy(EventKey(msg)) /\ Has(w, EventKey(msg))
    THEN CallHandler(w, w.listeners[EventKey(msg).s], HandlerArg(msg)).w
    ELSE w

\* Faulty variant: the return is missing, the expiry frame is dispatched too.
Logout_AndDispatch(w, msg) ==
    Dispatch([w EXCEPT !.logoutCalls = IF w.logoutHook THEN @ + 1 ELSE @], msg)

\* if (window.logoutUser) window.logoutUser(); return;
Logout(w, msg) == [w EXCEPT !.logoutCalls = IF w.logoutHook THEN @ + 1 ELSE @]

\* The body of onmessage's try block once the frame has been parsed.
\* GlobalState has no setBetSteps member, so the call GlobalState.setBetSteps(...)
\* throws a TypeError, which the catch swallows: the frame is not dispatched and
\* the store is not written.
HandleParsed(w, msg) ==
    IF msg.t = "null" THEN w                  \* TypeError on msg.data, caught
    ELSE IF IsExpiry(msg) THEN Logout(w, msg)
    ELSE IF IsInfoWithSteps(msg) THEN w       \* TypeError on setBetSteps, caught
    ELSE Dispatch(w, msg)

\* Faulty variant: the catch closes the socket.
onmessage_ClosesOnBadFrame(w, text) ==
    IF ~JSONParse(text).ok THEN SocketClose(w)
    ELSE HandleParsed(w, JSONParse(text).value)

\* socket.onmessage = (event) => { try { msg = JSON.parse(event.data); ... }
\*                                 catch (e) { console.error(...) } }
onmessage(w, text) ==
    LET p == JSONParse(text) IN
    IF ~p.ok THEN w                           \* SyntaxError, caught
    ELSE HandleParsed(w, p.value)

(***************************************************************************)
(* Inbound frames                                                          *)
(***************************************************************************)
\* An object holding the fields that are given (a field given as Undef is absent).
MkObj(fields) ==
    Obj([n \in {m \in DOMAIN fields : fields[m] # Undef} |-> fields[n]])

Envelope(event, operation, data, amounts) ==
    MkObj([event |-> event, operation |-> operation, data |-> data,
           mineSweeperAmounts |-> amounts])

Steps == Arr(<<Num(1), Num(2)>>)
ExpiredData == Obj([status |-> Str(SessionExpired)])
OkData == Obj([status |-> Str("200 OK")])
StepsData == Obj([mineSweeperAmounts |-> Steps])

RouterEnvelopes ==
    {Envelope(e, o, d, Undef) :
        e \in {Undef, Str("k")}, o \in {Undef, Str("k"), Str("info")},
        d \in {Undef, Num(0), OkData, ExpiredData, StepsData}}
    \cup {Envelope(Undef, Str("info"), d, a) :
        d \in {Undef, ExpiredData}, a \in {Steps, Str("1,2")}}

RouterFrames ==
    {JSONStringify(m) : m \in RouterEnvelopes \cup {Null, Num(5)}} \cup {NotJson}

ConnFrames ==
    {NotJson,
     JSONStringify(Envelope(Str("k"), Undef, OkData, Undef)),
     JSONStringify(Envelope(Undef, Str("k"), ExpiredData, Undef))}

(***************************************************************************)
(* Initial state: the singleton has been constructed, and its constructor  *)
(* has called connect().                                                   *)
(***************************************************************************)
InitService ==
    /\ socks = [i \in SocketIds |-> IF i = 1 THEN "CONNECTING" ELSE "FREE"]
    /\ cur = 1
    /\ isConnected = FALSE
    /\ queue = <<>>
    /\ listeners = [k \in AllKeys |-> NoHandler]
    /\ reconnectTimers = <<>>
    /\ sent = <<>>
    /\ nSends = 0
    /\ hung = FALSE
    /\ betSteps = Undef
    /\ logoutHook \in BOOLEAN
    /\ logoutCalls = 0
    /\ fired = <<>>
    /\ lifecycle = "Connecting"
    /\ onceInvoked = {}
    /\ instances = 1
    /\ store = GlobalState
    /\ closures = <<>>
    /\ storeFired = <<>>
    /\ storeSeen = <<>>
    /\ storeThrew = FALSE
    /\ boot = NotStarted
    /\ lastOp = [op |-> "construct"]

\* No listener is registered in the store yet.
Init ==
    /\ InitService
    /\ registries = [r \in Registries |-> <<>>]

(***************************************************************************)
(* Tasks                                                                   *)
(***************************************************************************)
\* The application calls ws.send(event, payload).
Send(event, limit) ==
    /\ nSends < limit
    /\ Commit(send(WS, event, Payload(event, nSends + 1)))
    /\ nSends' = nSends + 1
    /\ lastOp' = [op |-> "send", event |-> event, n |-> nSends + 1]
    /\ UNCHANGED <<lifecycle, onceInvoked>>

\* The connection of socket s is established: readyState becomes OPEN and the
\* open event is dispatched, in one task.
SocketOpens(s) ==
    /\ socks[s] = "CONNECTING"
    /\ Commit(onopen([WS EXCEPT !.socks[s] = "OPEN"]))
    /\ lifecycle' = "Open"
    /\ lastOp' = [op |-> "open", sock |-> s, drained |-> Len(queue)]
    /\ UNCHANGED <<nSends, onceInvoked>>

\* The server starts the closing handshake: readyState becomes CLOSING, no event.
ClosingHandshake(s) ==
    /\ socks[s] = "OPEN"
    /\ Commit([WS EXCEPT !.socks[s] = "CLOSING"])
    /\ lastOp' = [op |-> "closing", sock |-> s]
    /\ UNCHANGED <<nSends, lifecycle, onceInvoked>>

\* The connection of socket s is closed: readyState becomes CLOSED, then, if
\* the connection failed, the error event is dispatched, then the close event,
\* all in one task.
SocketCloses(s, failed) ==
    /\ socks[s] \in {"CONNECTING", "OPEN", "CLOSING"}
    /\ LET w0 == [WS EXCEPT !.socks[s] = "CLOSED"]
           w1 == IF failed THEN onerror(w0) ELSE w0
       IN Commit(onclose(w1))
    /\ lifecycle' = "Closed"
    /\ lastOp' = [op |-> "close", sock |-> s, failed |-> failed]
    /\ UNCHANGED <<nSends, onceInvoked>>

\* A reconnect timer expires: () => this.connect()
ReconnectTimerFires ==
    /\ reconnectTimers # <<>>
    /\ FreeIds(WS) # {}
    /\ Commit(connect([WS EXCEPT !.reconnectTimers = Tail(@)]))
    /\ lifecycle' = "Connecting"
    /\ lastOp' = [op |-> "reconnect", delay |-> Head(reconnectTimers)]
    /\ UNCHANGED <<nSends, onceInvoked>>

\* The application calls WebSocketService.getInstance().
GetInstance ==
    /\ Commit(getInstance(WS))
    /\ lastOp' = [op |-> "getInstance"]
    /\ UNCHANGED <<nSends, lifecycle, onceInvoked>>

\* The application calls ws.on(key, cb).
On(key, cb) ==
    /\ Commit(on(WS, key, Plain(cb)))
    /\ onceInvoked' = onceInvoked \ {key}
    /\ lastOp' = [op |-> "on", key |-> key, cb |-> cb, replaced |-> listeners[key]]
    /\ UNCHANGED <<nSends, lifecycle>>

\* The application calls ws.once(key, cb).
Once(key, cb) ==
    /\ Commit(once(WS, key, cb))
    /\ onceInvoked' = onceInvoked \ {key}
    /\ lastOp' = [op |-> "once", key |-> key, cb |-> cb, replaced |-> listeners[key]]
    /\ UNCHANGED <<nSends, lifecycle>>

\* The application calls ws.off(key).
Off(key) ==
    /\ Commit(off(WS, key))
    /\ onceInvoked' = onceInvoked \ {key}
    /\ lastOp' = [op |-> "off", key |-> key]
    /\ UNCHANGED <<nSends, lifecycle>>

NoReg == [key |-> "", cb |-> "", was |-> ""]

\* The registration the previous task made with on(), when it displaced a
\* handler with another callback.
Displacing ==
    IF /\ lastOp.op = "on"
       /\ lastOp.replaced # NoHandler
       /\ lastOp.replaced.cb # lastOp.cb
    THEN [key |-> lastOp.key, cb |-> lastOp.cb, was |-> lastOp.replaced.cb]
    ELSE NoReg

\* Keys whose once-wrapper ran in the task that led from w0 to w and is still
\* the registered handler.
StillRegisteredOnce(w0, w) ==
    {k \in Keys :
        /\ w0.listeners[k].kind = "once"
        /\ w.listeners[k] = w0.listeners[k]
        /\ \E i \in 1..Len(w.fired) : w.fired[i].via = "once"}

\* The task of a message event, the service being w0 when it starts.
Deliver(w0, text) ==
    /\ LET w == onmessage(w0, text) IN
       /\ Commit(w)
       /\ onceInvoked' =
            IF w.fired = <<>> THEN onceInvoked
            ELSE (onceInvoked \ {k \in Keys : w.listeners[k] # listeners[k]})
                 \cup StillRegisteredOnce(WS, w)
    /\ lastOp' = [op |-> "message", text |-> text, afterOn |-> Displacing,
                  afterBad |-> (lastOp.op = "message" /\ ~JSONParse(lastOp.text).ok)]
    /\ UNCHANGED <<nSends, lifecycle>>

\* A frame arrives on socket s.
Message(s, text) ==
    /\ socks[s] \in {"OPEN", "CLOSING"}
    /\ Deliver(WS, text)

(***************************************************************************)
(* Tasks of the bootstrap                                                  *)
(***************************************************************************)
SetupBalanceAndStartButton ==
    /\ boot.flow = "none"
    /\ Commit(setupBalanceAndStartButton(WS))
    /\ lastOp' = [op |-> "bootstrap", flow |-> "main"]
    /\ UNCHANGED <<nSends, lifecycle, onceInvoked>>

ExecuteMainFlow(soundFails) ==
    /\ boot.flow = "none"
    /\ Commit(executeMainFlow([WS EXCEPT !.boot.soundFails = soundFails]))
    /\ lastOp' = [op |-> "bootstrap", flow |-> "flow"]
    /\ UNCHANGED <<nSends, lifecycle, onceInvoked>>

\* React mode: the splash has been up for its minimum time, the assets are
\* loaded and the socket is connected.
InitializeCoreGame ==
    /\ boot.flow = "none"
    /\ isSocketConnected(WS)
    /\ Commit(initializeCoreGame(WS))
    /\ lastOp' = [op |-> "bootstrap", flow |-> "react"]
    /\ UNCHANGED <<nSends, lifecycle, onceInvoked>>

\* The server answers on socket s.
Response(s, text) ==
    /\ socks[s] \in {"OPEN", "CLOSING"}
    /\ boot.frames < MaxFrames
    /\ Deliver([WS EXCEPT !.boot.frames = @ + 1], text)

\* A timer of the bootstrap expires.  A timer does not overtake one that was
\* set earlier with a delay that is not longer.
BootTimerFires(i) ==
    /\ i \in 1..Len(boot.timers)
    /\ \A j \in 1..(i - 1) : boot.timers[j].delay > boot.timers[i].delay
    /\ LET name == boot.timers[i].name
           w0 == [WS EXCEPT !.boot.timers = Splice(@, i)]
       IN /\ Commit(CASE name \in {"restoreMain", "restoreFlow"} ->
                            triggerPendingGameRestore(w0)
                      [] name = "startButton" ->
                            [w0 EXCEPT !.boot.startButtons = @ + 1]
                      [] name = "removeSplashChild" ->
                            [w0 EXCEPT !.boot.splashRemoved = TRUE]
                      [] name = "splashFallback" -> removeSplashScreen(w0))
          /\ lastOp' = [op |-> "timer", name |-> name]
    /\ UNCHANGED <<nSends, lifecycle, onceInvoked>>

\* Responses of the server.  The fields of a response are in `data`.
ResponseFrame(operation, data) ==
    JSONStringify(Obj([operation |-> Str(operation), data |-> data]))

BalanceResponses ==
    {MkObj([status |-> Str("200 OK"), balance |-> b]) : b \in {Undef, Num(0), Num(500)}}

GridOption == Chars(<<"5", "x", "8">>)
SmallGrid == Chars(<<"5", "x", "3">>)

\* A round as the server reports it; a field given as Undef is absent.
RoundOf(roundId, currentRow, gameOver, gridOption, rowRewards) ==
    MkObj([status |-> Str("200 OK"), hasExistingGame |-> Bool(TRUE),
           roundId |-> roundId, currentRow |-> currentRow, gameOver |-> gameOver,
           gridOption |-> gridOption, betAmount |-> Num(2),
           revealedMatrix |-> Matrix, rowRewards |-> rowRewards])

Round(roundId, currentRow, gameOver, gridOption) ==
    RoundOf(roundId, currentRow, gameOver, gridOption, Arr(<<Num(3), Num(7)>>))

GameLoadResponses ==
    {MkObj([status |-> Str("400")]),
     MkObj([status |-> Str("500")]),
     MkObj([status |-> Str("200 OK")]),
     MkObj([status |-> Str("200 OK"), hasExistingGame |-> Bool(FALSE), roundId |-> Str("r7")]),
     MkObj([status |-> Str("400"), hasExistingGame |-> Bool(TRUE), roundId |-> Str("r7")])}
    \cup {Round(id, Num(2), Undef, GridOption) : id \in {Undef, Null, Str(""), Str("r7")}}
    \cup {Round(Str("r7"), row, Undef, Undef) : row \in {Undef, Num(0), Num(4), Num(5)}}
    \cup {Round(id, Num(3), Bool(TRUE), Undef) : id \in {Str(""), Str("r7")}}
    \cup {Round(Str("r7"), row, Undef, SmallGrid) : row \in {Num(1), Num(4)}}
    \cup {RoundOf(Str("r7"), Num(1), Undef, Undef, rowRewards) :
            rowRewards \in {Undef, Arr(<<>>), Arr(<<Num(5), Num(0)>>)}}

\* The frames the server sends to a client that has run the given entry point.
FramesOf(flow) ==
    {ResponseFrame("getbalance", d) : d \in BalanceResponses}
    \cup {ResponseFrame(IF flow = "main" THEN "minesweeper_game_load" ELSE "your_game_load", d) :
            d \in GameLoadResponses}

(***************************************************************************)
(* Tasks of the application on the store                                   *)
(***************************************************************************)
SetGameStarted(started) ==
    /\ Commit(setGameStarted(WS, started))
    /\ lastOp' = [op |-> "setGameStarted", started |-> started]
    /\ UNCHANGED <<nSends, lifecycle, onceInvoked>>

SetBalance(balance) ==
    /\ Commit(setBalance(WS, balance))
    /\ lastOp' = [op |-> "setBalance", balance |-> balance]
    /\ UNCHANGED <<nSends, lifecycle, onceInvoked>>

SetGridDimensions(cols, rows) ==
    /\ Commit(setGridDimensions(WS, cols, rows))
    /\ lastOp' = [op |-> "setGridDimensions", cols |-> cols, rows |-> rows]
    /\ UNCHANGED <<nSends, lifecycle, onceInvoked>>

SetStakeAmount(amount) ==
    /\ Commit(setStakeAmount(WS, amount))
    /\ lastOp' = [op |-> "set", attr |-> "stakeAmount", value |-> amount]
    /\ UNCHANGED <<nSends, lifecycle, onceInvoked>>

SetRoundId(roundId) ==
    /\ Commit(setRoundId(WS, roundId))
    /\ lastOp' = [op |-> "set", attr |-> "roundId", value |-> roundId]
    /\ UNCHANGED <<nSends, lifecycle, onceInvoked>>

SetCurrentRow(row) ==
    /\ Commit(setCurrentRow(WS, row))
    /\ lastOp' = [op |-> "set", attr |-> "current_row", value |-> row]
    /\ UNCHANGED <<nSends, lifecycle, onceInvoked>>

SetGameMatrix(matrix) ==
    /\ Commit(setGameMatrix(WS, matrix))
    /\ lastOp' = [op |-> "set", attr |-> "game_matrix", value |-> matrix]
    /\ UNCHANGED <<nSends, lifecycle, onceInvoked>>

SetReward(newReward) ==
    /\ Commit(setReward(WS, newReward))
    /\ lastOp' = [op |-> "set", attr |-> "reward", value |-> newReward]
    /\ UNCHANGED <<nSends, lifecycle, onceInvoked>>

SetToken(token) ==
    /\ Commit(setToken(WS, token))
    /\ lastOp' = [op |-> "set", attr |-> "token", value |-> token]
    /\ UNCHANGED <<nSends, lifecycle, onceInvoked>>

\* The add-listener function of a listener array.
AddListenerOf(w, reg, cb) ==
    CASE reg = "gameStartedListeners" -> addGameStartedListener(w, cb)
      [] reg = "gameEndedListeners" -> addGameEndedListener(w, cb)
      [] reg = "balanceChangeListeners" -> addBalanceChangeListener(w, cb)
      [] reg = "gridDimensionChangeListeners" -> addGridDimensionChangeListener(w, cb)
      [] reg = "pendingGameRestoreListeners" -> addPendingGameRestoreListener(w, cb)
      [] reg = "pendingGameRestoreCompleteListeners" ->
            addPendingGameRestoreCompleteListener(w, cb)

\* The application registers cb in one listener array and keeps the closure.
\* The arrays are populated one at a time: all the closures held are of the
\* same array.
AddListener(reg, cb) ==
    /\ Len(closures) < MaxAdds
    /\ \A k \in 1..Len(closures) : closures[k].reg = reg
    /\ Commit(AddListenerOf(WS, reg, cb))
    /\ lastOp' = [op |-> "addListener", reg |-> reg, cb |-> cb]
    /\ UNCHANGED <<nSends, lifecycle, onceInvoked>>

\* The application calls the k-th closure it holds.
CallUnsubscribe(k) ==
    /\ k \in 1..Len(closures)
    /\ Commit(Unsubscribe(WS, k))
    /\ lastOp' = [op |-> "unsubscribe", k |-> k, again |-> closures[k].called]
    /\ UNCHANGED <<nSends, lifecycle, onceInvoked>>

TriggerPendingGameRestore ==
    /\ Commit(triggerPendingGameRestore(WS))
    /\ lastOp' = [op |-> "triggerPendingGameRestore"]
    /\ UNCHANGED <<nSends, lifecycle, onceInvoked>>

(***************************************************************************)
(* Specifications                                                          *)
(***************************************************************************)
\* The connection: queueing, lifecycle and reconnect, with a small router load.
Next ==
    \/ GetInstance
    \/ Send("k", MaxSends)
    \/ \E s \in SocketIds : SocketOpens(s)
    \/ \E s \in SocketIds : ClosingHandshake(s)
    \/ \E s \in SocketIds, failed \in BOOLEAN : SocketCloses(s, failed)
    \/ ReconnectTimerFires
    \/ On("k", "h1")
    \/ Once("k", "h1")
    \/ Off("k")
    \/ \E s \in SocketIds, text \in ConnFrames : Message(s, text)

Spec == Init /\ [][Next]_vars

\* The router: every frame shape and every handler, on a connection that has
\* opened (the state after the first open event, nothing having been sent).
InitRouter ==
    /\ socks = [i \in SocketIds |-> IF i = 1 THEN "OPEN" ELSE "FREE"]
    /\ cur = 1
    /\ isConnected = TRUE
    /\ queue = <<>>
    /\ listeners = [k \in AllKeys |-> NoHandler]
    /\ reconnectTimers = <<>>
    /\ sent = <<>>
    /\ nSends = 0
    /\ hung = FALSE
    /\ betSteps = Undef
    /\ logoutHook \in BOOLEAN
    /\ logoutCalls = 0
    /\ fired = <<>>
    /\ lifecycle = "Open"
    /\ onceInvoked = {}
    /\ instances = 1
    /\ store = GlobalState
    /\ registries = [r \in Registries |-> <<>>]
    /\ closures = <<>>
    /\ storeFired = <<>>
    /\ storeSeen = <<>>
    /\ storeThrew = FALSE
    /\ boot = NotStarted
    /\ lastOp = [op |-> "open", sock |-> 1, drained |-> 0]

NextRouter ==
    \/ \E key \in Keys, cb \in {"h1", "h2"} : On(key, cb)
    \/ \E key \in Keys, cb \in {"h1", "hThrow"} : Once(key, cb)
    \/ \E key \in Keys : Off(key)
    \/ \E s \in SocketIds, text \in RouterFrames : Message(s, text)

SpecRouter == InitRouter /\ [][NextRouter]_vars

\* Request/response chaining: a one-shot handler registers its successor.
NextChaining ==
    \/ Once("k", "hChain")
    \/ \E key \in Keys : On(key, "h1")
    \/ \E key \in Keys : Off(key)
    \/ \E s \in SocketIds, text \in RouterFrames : Message(s, text)

SpecChaining == InitRouter /\ [][NextChaining]_vars

\* The lifecycle alone, with the scheduling the timer queue guarantees: a timer
\* that has been set expires.
NextLifecycle ==
    \/ Send("k", MaxSends)
    \/ \E s \in SocketIds : SocketOpens(s)
    \/ \E s \in SocketIds : ClosingHandshake(s)
    \/ \E s \in SocketIds, failed \in BOOLEAN : SocketCloses(s, failed)
    \/ ReconnectTimerFires

SpecLifecycle == Init /\ [][NextLifecycle]_vars /\ WF_vars(ReconnectTimerFires)

\* The store's setters, every listener array holding two listeners whose
\* closures the application has dropped.
InitStore ==
    /\ InitService
    /\ registries = [r \in Registries |-> <<"l1", "l2">>]

Balances == {Num(DEFAULT_BALANCE), Num(500)}
Cols == {Num(DEFAULT_COLS), Num(4)}
Rows == {Num(DEFAULT_ROWS), Num(8)}

NextStore ==
    \/ \E started \in BOOLEAN : SetGameStarted(started)
    \/ \E balance \in Balances : SetBalance(balance)
    \/ \E cols \in Cols, rows \in Rows : SetGridDimensions(cols, rows)
    \/ \E amount \in {Num(DEFAULT_STAKE), Num(2)} : SetStakeAmount(amount)
    \/ \E roundId \in {Null, Str("r1")} : SetRoundId(roundId)
    \/ \E row \in {Num(DEFAULT_ROWS - 1), Num(3)} : SetCurrentRow(row)
    \/ \E matrix \in {Arr(<<>>), Matrix} : SetGameMatrix(matrix)
    \/ \E newReward \in {Num(0), Num(10)} : SetReward(newReward)
    \/ \E token \in {Null, Str("tok")} : SetToken(token)

SpecStore == InitStore /\ [][NextStore]_vars

\* The listener arrays: registration, unsubscription and the functions that fire.
NextListeners ==
    \/ \E reg \in Registries, cb \in {"l1", "lThrow"} : AddListener(reg, cb)
    \/ \E k \in 1..MaxAdds : CallUnsubscribe(k)
    \/ \E started \in BOOLEAN : SetGameStarted(started)
    \/ \E balance \in Balances : SetBalance(balance)
    \/ \E rows \in Rows : SetGridDimensions(Num(DEFAULT_COLS), rows)
    \/ TriggerPendingGameRestore

SpecListeners == Init /\ [][NextListeners]_vars

\* The bootstrap, from the construction of the service on.
NextBootstrap ==
    \/ SetupBalanceAndStartButton
    \/ \E soundFails \in BOOLEAN : ExecuteMainFlow(soundFails)
    \/ \E s \in SocketIds : SocketOpens(s)
    \/ \E s \in SocketIds, text \in FramesOf(boot.flow) : Response(s, text)
    \/ \E i \in 1..Len(boot.timers) : BootTimerFires(i)

SpecBootstrap == Init /\ [][NextBootstrap]_vars

\* The bootstrap of an application that has registered listeners in the store.
SpecRestore == InitStore /\ [][NextBootstrap]_vars

\* The bootstrap with the timers of the event loop: a timer that is due expires.
BootTimerExpires == \E i \in 1..Len(boot.timers) : BootTimerFires(i)

SpecBootstrapFair == SpecBootstrap /\ WF_vars(BootTimerExpires)

\* The React-mode bootstrap of main.ts.
NextReact ==
    \/ InitializeCoreGame
    \/ \E s \in SocketIds : SocketOpens(s)
    \/ \E s \in SocketIds, text \in FramesOf("main") : Response(s, text)
    \/ BootTimerExpires

SpecReactFair == Init /\ [][NextReact]_vars /\ WF_vars(BootTimerExpires)

\* The executeMainFlow bootstrap against a server that answers each request:
\* the balance request with a balance, the pending-round query with any
\* response.
AnswerBalance(s, balance) ==
    /\ boot.flow = "flow"
    /\ ~boot.balanceResolved
    /\ \E i \in 1..Len(sent) : sent[i] = JSONStringify(BalanceQuery)
    /\ Response(s, ResponseFrame("getbalance",
                    MkObj([status |-> Str("200 OK"), balance |-> balance])))

AnswerGameLoad(s, data) ==
    /\ boot.flow = "flow"
    /\ boot.awaiting
    /\ \E i \in 1..Len(sent) : Get(sent[i].json, "operation") = Str("your_game_load")
    /\ Response(s, ResponseFrame("your_game_load", data))

SocketOpensEventually == \E s \in SocketIds : SocketOpens(s)
BalanceAnswered == \E s \in SocketIds, balance \in {Num(0), Num(500)} : AnswerBalance(s, balance)
GameLoadAnswered == \E s \in SocketIds, data \in GameLoadResponses : AnswerGameLoad(s, data)

NextFlow ==
    \/ \E soundFails \in BOOLEAN : ExecuteMainFlow(soundFails)
    \/ SocketOpensEventually
    \/ BalanceAnswered
    \/ GameLoadAnswered
    \/ BootTimerExpires

SpecFlowFair ==
    /\ Init /\ [][NextFlow]_vars
    /\ WF_vars(SocketOpensEventually)
    /\ WF_vars(BalanceAnswered)
    /\ WF_vars(GameLoadAnswered)
    /\ WF_vars(BootTimerExpires)

(***************************************************************************)
(* Properties of the connection                                            *)
(***************************************************************************)
QueuedTexts(q) == [i \in 1..Len(q) |-> JSONStringify(q[i].data)]
NoDuplicates(seq) == \A i, j \in 1..Len(seq) : seq[i] = seq[j] => i = j
Open == isConnected /\ socks[cur] = "OPEN"
Command(op) == [event |-> op.event, data |-> Payload(op.event, op.n)]

\* C1: a send() made while the connection is not open is queued and transmits
\* nothing; the open handler transmits exactly the queued commands, in the order
\* they were queued, and leaves the queue empty; no other task transmits.
C1_QueueThenFlush ==
    [][/\ (lastOp'.op = "send" /\ ~Open)
            => (sent' = sent /\ queue' = Append(queue, Command(lastOp')))
       /\ lastOp'.op = "open"
            => (sent' = sent \o QueuedTexts(queue) /\ queue' = <<>>)
       /\ lastOp'.op \notin {"send", "open"} => sent' = sent]_vars

\* An open event has just flushed at least two queued commands, and they are
\* all that was ever transmitted.
C1_Witness ==
    /\ lastOp.op = "open"
    /\ lastOp.drained >= 2
    /\ Len(sent) = lastOp.drained
    /\ queue = <<>>

\* C2: every command is transmitted at most once.  A command is either queued
\* or transmitted, never both and never twice; what was transmitted stays as it
\* is (no reopen transmits it again); a send() made while open transmits at once
\* and queues nothing; an open event empties the queue.
C2_AtMostOnce ==
    /\ [](NoDuplicates(sent \o QueuedTexts(queue)))
    /\ [](Len(sent) + Len(queue) = nSends)
    /\ [][/\ Len(sent') >= Len(sent)
          /\ SubSeq(sent', 1, Len(sent)) = sent
          /\ (lastOp'.op = "send" /\ Open)
               => (sent' = Append(sent, JSONStringify(Payload(lastOp'.event, lastOp'.n)))
                   /\ queue' = queue)
          /\ lastOp'.op = "open" => queue' = <<>>]_vars

\* A reopen has flushed a queued command after other commands had already been
\* transmitted.
C2_Witness ==
    /\ lastOp.op = "open"
    /\ lastOp.drained >= 1
    /\ Len(sent) > lastOp.drained
    /\ lifecycle = "Open"

\* C9: isSocketConnected() is true only between an open event and the next
\* close event; right after a close event it is false.
C9_ConnectedOnlyWhenOpen ==
    /\ isSocketConnected(WS) => lifecycle = "Open"
    /\ lastOp.op = "close" => ~isSocketConnected(WS)

\* A connection that had been open (it transmitted) has just closed.
C9_Witness ==
    /\ lastOp.op = "close"
    /\ lifecycle = "Closed"
    /\ Len(sent) >= 1
    /\ ~isSocketConnected(WS)

LiveSockets == {i \in SocketIds : socks[i] \in {"CONNECTING", "OPEN", "CLOSING"}}

\* C10: every close event (after an error or not) sets exactly one reconnect
\* timer, of the fixed delay; the timer's expiry makes exactly one connection
\* attempt; so a closed connection always has one attempt pending and, timers
\* expiring, is always followed by a new attempt, however often it fails.
C10_AlwaysReconnects ==
    /\ [](lifecycle = "Closed" => reconnectTimers = <<reconnectDelay>>)
    /\ [](lifecycle # "Closed" => reconnectTimers = <<>>)
    /\ [][lastOp'.op = "close"
            => reconnectTimers' = Append(reconnectTimers, reconnectDelay)]_vars
    /\ [][lastOp'.op = "reconnect"
            => (/\ LiveSockets = {}
                /\ LiveSockets' = {cur'}
                /\ socks'[cur'] = "CONNECTING")]_vars
    /\ (lifecycle = "Closed") ~> (lifecycle = "Connecting")

\* The socket of a reconnect has failed in its turn, with nothing ever
\* transmitted, and the next attempt is pending.
C10_Witness ==
    /\ lastOp.op = "close"
    /\ lastOp.failed
    /\ lastOp.sock = 2
    /\ sent = <<>>
    /\ reconnectTimers = <<reconnectDelay>>

\* C11: whatever getInstance calls, socket events and reconnect timers occur,
\* there is exactly one service instance and at most one socket that is
\* connecting, open or closing; a task creates a socket only when no socket is
\* live, the previous one being closed.
C11_OneInstanceOneSocket ==
    /\ [](instances = 1)
    /\ [](Cardinality(LiveSockets) <= 1)
    /\ [][\A i \in SocketIds :
            (socks'[i] = "CONNECTING" /\ socks[i] # "CONNECTING")
                => (LiveSockets = {} /\ socks[cur] = "CLOSED")]_vars

\* getInstance is called again while the second socket, created by a reconnect
\* after the first one failed, is open.
C11_Witness ==
    /\ lastOp.op = "getInstance"
    /\ instances = 1
    /\ cur = 2
    /\ socks[2] = "OPEN"
    /\ LiveSockets = {2}

(***************************************************************************)
(* Properties of the store                                                 *)
(***************************************************************************)
\* What one fire of a listener array records: every registered listener once,
\* in registration order, with the given arguments.
Invocations(reg, args) ==
    [i \in 1..Len(registries[reg]) |->
        [reg |-> reg, cb |-> registries[reg][i], args |-> args]]

\* C12: setGameStarted(flag) always stores flag; it invokes all game-started
\* listeners exactly when the flag goes from false to true, all game-ended
\* listeners exactly when it goes from true to false, and no listener when the
\* stored value already equals flag.
C12_GameStartedEdges ==
    [][lastOp'.op = "setGameStarted" =>
        /\ store'.gameStarted = lastOp'.started
        /\ storeFired' =
             IF lastOp'.started /\ ~store.gameStarted
             THEN Invocations("gameStartedListeners", <<>>)
             ELSE IF ~lastOp'.started /\ store.gameStarted
             THEN Invocations("gameEndedListeners", <<>>)
             ELSE <<>>]_vars

\* The flag has just gone from true to false and both game-ended listeners, and
\* only they, have been invoked.
C12_Witness ==
    /\ lastOp.op = "setGameStarted"
    /\ ~lastOp.started
    /\ ~store.gameStarted
    /\ Len(storeFired) = 2
    /\ \A i \in 1..2 : storeFired[i].reg = "gameEndedListeners"

\* C13: setBalance and setGridDimensions always store the new value(s); they
\* invoke their listeners, with the new value(s), if and only if the new value
\* differs from the previous one (for the grid: if cols or rows changed).
C13_ChangeNotifications ==
    [][/\ lastOp'.op = "setBalance" =>
            /\ store'.balance = lastOp'.balance
            /\ storeFired' =
                 IF lastOp'.balance # store.balance
                 THEN Invocations("balanceChangeListeners", <<lastOp'.balance>>)
                 ELSE <<>>
       /\ lastOp'.op = "setGridDimensions" =>
            /\ store'.total_cols = lastOp'.cols
            /\ store'.total_rows = lastOp'.rows
            /\ storeFired' =
                 IF lastOp'.cols # store.total_cols \/ lastOp'.rows # store.total_rows
                 THEN Invocations("gridDimensionChangeListeners",
                                  <<lastOp'.cols, lastOp'.rows>>)
                 ELSE <<>>]_vars

\* The grid has been set to the default number of columns and another number
\* of rows, and both grid listeners have been given the new dimensions.
C13_Witness ==
    /\ lastOp.op = "setGridDimensions"
    /\ store.total_cols = Num(DEFAULT_COLS)
    /\ store.total_rows = Num(8)
    /\ storeFired = Invocations("gridDimensionChangeListeners", <<Num(DEFAULT_COLS), Num(8)>>)
    /\ Len(storeFired) = 2

\* C16: setStakeAmount, setRoundId, setCurrentRow, setGameMatrix, setReward and
\* setToken change their own attribute only: every other attribute and every
\* listener array stays as it was, and no listener is invoked.
C16_SimpleSetters ==
    [][lastOp'.op = "set" =>
        /\ store' = [store EXCEPT ![lastOp'.attr] = lastOp'.value]
        /\ storeFired' = <<>>
        /\ registries' = registries
        /\ betSteps' = betSteps]_vars

\* The row has been set while the reward, the round id and the started flag
\* hold values written earlier, in a store whose listener arrays are populated.
C16_Witness ==
    /\ lastOp.op = "set"
    /\ lastOp.attr = "current_row"
    /\ store.current_row = Num(3)
    /\ store.reward = Num(10)
    /\ store.roundId = Str("r1")
    /\ store.gameStarted
    /\ storeFired = <<>>
    /\ \A r \in Registries : Len(registries[r]) = 2

\* The callbacks of one listener array that a task's log says were invoked.
InvokedOf(log, reg) ==
    LET OfReg(x) == x.reg = reg
        part == SelectSeq(log, OfReg)
    IN [i \in 1..Len(part) |-> part[i].cb]

Setters == {"setGameStarted", "setBalance", "setGridDimensions"}

\* C14: when a setter fires a listener array, the listeners invoked are the
\* registered ones, in registration order, each once, also when some of them
\* throw; and no exception reaches the setter's caller.
C14_FireInOrderIsolated ==
    [][lastOp'.op \in Setters =>
        /\ ~storeThrew'
        /\ \A reg \in Registries :
              \/ InvokedOf(storeFired', reg) = <<>>
              \/ InvokedOf(storeFired', reg) = registries[reg]]_vars

\* A balance change has been notified to three registrations, the second of
\* which throws.
C14_Witness ==
    /\ lastOp.op = "setBalance"
    /\ registries["balanceChangeListeners"] = <<"l1", "lThrow", "l1">>
    /\ InvokedOf(storeFired, "balanceChangeListeners") = <<"l1", "lThrow", "l1">>
    /\ ~storeThrew

\* C15: triggerPendingGameRestore invokes every listener registered for the
\* restore request, once each, in registration order.
C15_RestoreSignalFires ==
    [][lastOp'.op = "triggerPendingGameRestore" =>
        InvokedOf(storeFired', "pendingGameRestoreListeners")
            = registries["pendingGameRestoreListeners"]]_vars

\* C17: calling an unsubscribe closure a second time changes nothing.
C17_UnsubscribeIdempotent ==
    [][(lastOp'.op = "unsubscribe" /\ lastOp'.again) => registries' = registries]_vars

(***************************************************************************)
(* Properties of the router.  The frame of a message task is read from the *)
(* task's record, as the JSON text says it, not through the code's tests.  *)
(***************************************************************************)
IsMessage(op) == op.op = "message"
Parses(op) == "json" \in DOMAIN op.text
Frame(op) == op.text.json
IsEnvelope(op) == IsMessage(op) /\ Parses(op) /\ Frame(op).t = "object"
HasField(m, name) == m.t = "object" /\ name \in DOMAIN m.f

\* the frame's nested data.status is the session-expiry string
FrameExpired(op) ==
    /\ IsEnvelope(op)
    /\ HasField(Frame(op), "data")
    /\ HasField(Frame(op).f.data, "status")
    /\ Frame(op).f.data.f.status = Str(SessionExpired)

\* the dispatch key: the event field if present, otherwise the operation field
FrameKey(op) ==
    IF HasField(Frame(op), "event") THEN Frame(op).f.event.s
    ELSE IF HasField(Frame(op), "operation") THEN Frame(op).f.operation.s
    ELSE ""

\* an `info` frame with an array at the top level, whose interception fails
FrameTopLevelSteps(op) ==
    /\ IsEnvelope(op)
    /\ HasField(Frame(op), "operation") /\ Frame(op).f.operation = Str("info")
    /\ HasField(Frame(op), "mineSweeperAmounts")
    /\ Frame(op).f.mineSweeperAmounts.t = "array"

FiredCallbacks == {fired[i].cb : i \in 1..Len(fired)}

\* C3: once on(k, h2) has displaced the handler of k, a frame with key k invokes
\* h2 and nothing else (one invocation for a frame that is dispatched, none for
\* a frame that is not); on(k, h2) leaves the handlers of the other keys alone.
C3_SingleSlot ==
    [][/\ lastOp'.op = "on"
            => listeners' = [listeners EXCEPT ![lastOp'.key] = Plain(lastOp'.cb)]
       /\ (/\ IsEnvelope(lastOp')
           /\ lastOp'.afterOn # NoReg
           /\ FrameKey(lastOp') = lastOp'.afterOn.key)
            => /\ \A i \in 1..Len(fired') : fired'[i].cb = lastOp'.afterOn.cb
               /\ (~FrameExpired(lastOp') /\ ~FrameTopLevelSteps(lastOp'))
                    => Len(fired') = 1]_vars

\* on("k", h2) displaced h1 and the next frame with key k invoked h2.
C3_Witness ==
    /\ IsEnvelope(lastOp)
    /\ lastOp.afterOn = [key |-> "k", cb |-> "h2", was |-> "h1"]
    /\ FrameKey(lastOp) = "k"
    /\ Len(fired) = 1
    /\ fired[1].cb = "h2"
    /\ listeners["info"] # NoHandler

\* C4: the task that invokes a once-wrapper leaves no handler registered for
\* its key, and a once-wrapper that has run is not invoked again.
C4_OnceFiresOnce ==
    [][(IsEnvelope(lastOp') /\ \E i \in 1..Len(fired') : fired'[i].via = "once")
         => /\ listeners'[FrameKey(lastOp')] = NoHandler
            /\ FrameKey(lastOp') \notin onceInvoked]_vars

\* C5: a frame whose data.status is the session-expiry string invokes no
\* handler, changes no registration, and invokes the logout hook once.
C5_ExpiryShortCircuit ==
    [][FrameExpired(lastOp')
         => /\ fired' = <<>>
            /\ listeners' = listeners
            /\ logoutCalls' = (IF logoutHook THEN 1 ELSE 0)]_vars

\* An expiry frame for a key that has a handler has called the logout hook.
C5_Witness ==
    /\ FrameExpired(lastOp)
    /\ FrameKey(lastOp) = "k"
    /\ listeners["k"] # NoHandler
    /\ logoutCalls = 1
    /\ fired = <<>>

\* C6: a frame that does not parse invokes nothing and changes neither the
\* handler table, the queue, the connection nor the store; the well-formed
\* frame that follows it is dispatched to the registered handler as usual.
C6_MalformedDiscarded ==
    [][/\ (IsMessage(lastOp') /\ ~Parses(lastOp'))
            => /\ fired' = <<>>
               /\ logoutCalls' = 0
               /\ UNCHANGED <<listeners, queue, sent, isConnected, socks, cur,
                              reconnectTimers, lifecycle, hung, betSteps>>
       /\ (/\ IsEnvelope(lastOp')
           /\ lastOp'.afterBad
           /\ ~FrameExpired(lastOp')
           /\ listeners[FrameKey(lastOp')] # NoHandler)
            => /\ Len(fired') = 1
               /\ fired'[1].cb = listeners[FrameKey(lastOp')].cb
               /\ fired'[1].arg = Frame(lastOp').f.data]_vars

\* A well-formed frame has been dispatched right after a malformed one was
\* discarded, with a command waiting in the queue.
C6_Witness ==
    /\ IsEnvelope(lastOp)
    /\ lastOp.afterBad
    /\ Len(fired) = 1
    /\ queue # <<>>

\* C7: a frame that is not an expiry frame and whose key has a handler invokes
\* that handler once, with the frame's data when the frame has a data field and
\* with the whole frame when it has none.
C7_DispatchArgument ==
    [][(/\ IsEnvelope(lastOp')
        /\ ~FrameExpired(lastOp')
        /\ FrameKey(lastOp') \in Keys
        /\ listeners[FrameKey(lastOp')] # NoHandler)
         => /\ Len(fired') = 1
            /\ fired'[1].cb = listeners[FrameKey(lastOp')].cb
            /\ fired'[1].arg = (IF HasField(Frame(lastOp'), "data")
                                THEN Frame(lastOp').f.data
                                ELSE Frame(lastOp'))]_vars

\* C8: an `info` frame whose data.mineSweeperAmounts is an array sets the
\* store's bet steps to that array.
C8_InfoSetsBetSteps ==
    [][(/\ IsEnvelope(lastOp')
        /\ HasField(Frame(lastOp'), "operation")
        /\ Frame(lastOp').f.operation = Str("info")
        /\ HasField(Frame(lastOp'), "data")
        /\ HasField(Frame(lastOp').f.data, "mineSweeperAmounts")
        /\ Frame(lastOp').f.data.f.mineSweeperAmounts.t = "array")
         => betSteps' = Frame(lastOp').f.data.f.mineSweeperAmounts]_vars

(***************************************************************************)
(* Properties of the bootstrap                                             *)
(***************************************************************************)
GameLoadOperations == {Str("minesweeper_game_load"), Str("your_game_load")}

\* The commands handed to send() so far, transmitted or still queued.
Outbound(transmitted, queued) == transmitted \o QueuedTexts(queued)

\* The number of pending-round queries among the first n texts.
RECURSIVE QueryCount(_, _)
QueryCount(texts, n) ==
    IF n = 0 THEN 0
    ELSE QueryCount(texts, n - 1)
         + (IF Get(texts[n].json, "operation") \in GameLoadOperations THEN 1 ELSE 0)

Queries(transmitted, queued) ==
    QueryCount(Outbound(transmitted, queued), Len(transmitted) + Len(queued))

\* The fields of a response, as the frame carries them.
ResponseData(op) == Get(Frame(op), "data")
IsResponse(op, operations) ==
    IsEnvelope(op) /\ Get(Frame(op), "operation") \in operations
IsBalanceResponse(op) == IsResponse(op, {Str("getbalance")})

\* C18: a task sends a pending-round query only if it is the task of a balance
\* response that carries a balance, and that balance is in the store when the
\* task ends; a balance response without a balance field leaves the store's
\* balance as it was, sends nothing and registers nothing.
C18_QueryAfterBalance ==
    [][/\ Queries(sent', queue') > Queries(sent, queue) =>
            /\ IsBalanceResponse(lastOp')
            /\ Get(ResponseData(lastOp'), "balance") # Undef
            /\ store'.balance = Get(ResponseData(lastOp'), "balance")
       /\ (IsBalanceResponse(lastOp') /\ Get(ResponseData(lastOp'), "balance") = Undef) =>
            /\ store'.balance = store.balance
            /\ Outbound(sent', queue') = Outbound(sent, queue)
            /\ listeners' = listeners
            /\ boot'.awaiting = boot.awaiting]_vars

\* A balance response carrying the balance 0 has been handled: the store holds
\* 0 and the pending-round query is the last command transmitted.
C18_Witness ==
    /\ IsBalanceResponse(lastOp)
    /\ Get(ResponseData(lastOp), "balance") = Num(0)
    /\ store.balance = Num(0)
    /\ Queries(sent, queue) = 1
    /\ Get(sent[Len(sent)].json, "operation") \in GameLoadOperations
    /\ boot.awaiting

\* A pending-round response that reaches a handler of the bootstrap.
IsGameLoadResponse(op) == IsResponse(op, GameLoadOperations)
Answered(op) ==
    /\ IsGameLoadResponse(op)
    /\ listeners[Get(Frame(op), "operation").s] # NoHandler

\* The restore signals that are scheduled.
RestoreTimers(timers) ==
    LET IsRestore(t) == t.name \in {"restoreMain", "restoreFlow"} IN
    SelectSeq(timers, IsRestore)

\* The task has classified the response as "no pending game" and has restored
\* nothing: the store is as it was, no listener ran, no restore signal is
\* scheduled.
NoPendingGame ==
    /\ boot'.resolved = "false"
    /\ store' = store
    /\ storeFired' = <<>>
    /\ RestoreTimers(boot'.timers) = RestoreTimers(boot.timers)

\* The cases of a response in which no round is offered for restoration.
NothingToRestore(data) ==
    \/ Get(data, "status") = Str("400")
    \/ Get(data, "status") \notin {Str("400"), Str("200 OK")}
    \/ Get(data, "hasExistingGame") \in {Undef, Bool(FALSE)}
    \/ Get(data, "roundId") \in {Undef, Null, Str("")}

\* C19: a pending-round response with status "400", with an unrecognized
\* status, with "200 OK" and no existing game, or with an existing game whose
\* round id is absent, null or empty is classified "no pending game"; it
\* changes no attribute of the store (gameStarted included) and schedules no
\* restore signal.
C19_NoPendingCases ==
    [][(Answered(lastOp') /\ NothingToRestore(ResponseData(lastOp'))) => NoPendingGame]_vars

\* A response offering a round whose id is the empty string has been
\* classified "no pending game"; the store has no round and the game is not
\* started.
C19_Witness ==
    /\ IsGameLoadResponse(lastOp)
    /\ Get(ResponseData(lastOp), "hasExistingGame") = Bool(TRUE)
    /\ Get(ResponseData(lastOp), "roundId") = Str("")
    /\ boot.resolved = "false"
    /\ store.roundId = Null
    /\ ~store.gameStarted
    /\ RestoreTimers(boot.timers) = <<>>

\* The round a response reports is exhausted: its row has reached the last row
\* of the store's grid, or the game-over flag is set.
Exhausted(data) ==
    \/ JsGe(Get(data, "currentRow"), JsMinus(store.total_rows, Num(1)))
    \/ Get(data, "gameOver") = Bool(TRUE)

\* C20: a response that reports an existing round which is exhausted is
\* classified "no pending game", nothing being restored, also when its round
\* id is present and non-empty; a response classified as a pending game
\* reports a round that is not exhausted.
C20_ExhaustedNotRestored ==
    [][/\ (/\ Answered(lastOp')
           /\ Get(ResponseData(lastOp'), "status") = Str("200 OK")
           /\ Get(ResponseData(lastOp'), "hasExistingGame") = Bool(TRUE)
           /\ Exhausted(ResponseData(lastOp'))) => NoPendingGame
       /\ (Answered(lastOp') /\ boot'.resolved = "true")
            => ~Exhausted(ResponseData(lastOp'))]_vars

\* The task removes the splash screen of the executeMainFlow bootstrap.
HidesSplash == boot'.hideCalls # boot.hideCalls

\* C21: in the executeMainFlow bootstrap hideSplash() is called at most once;
\* the call is made by the task that resolves the pending check to "no
\* pending game" or by the fallback timer, and when it is made the balance
\* step is resolved and no pending check is awaited.
C21_ReadyOnceAfterBothSteps ==
    /\ [](boot.hideCalls <= 1 /\ (boot.splashRemoved <=> boot.hideCalls = 1))
    /\ [][HidesSplash =>
            /\ boot.hideCalls = 0
            /\ boot'.flow = "flow"
            /\ boot'.balanceResolved
            /\ ~boot'.awaiting
            /\ Queries(sent', queue') = 1
            /\ \/ IsGameLoadResponse(lastOp') /\ boot'.resolved = "false"
               \/ lastOp' = [op |-> "timer", name |-> "splashFallback"]]_vars

\* The pending check has resolved to "no pending game", playBackground() has
\* thrown and the catch block has called removeSplashScreen() again: the
\* splash was hidden once.
C21_Witness ==
    /\ boot.flow = "flow"
    /\ boot.soundFails
    /\ IsGameLoadResponse(lastOp)
    /\ boot.resolved = "false"
    /\ boot.splashRemoved
    /\ boot.hideCalls = 1
    /\ boot.frames >= 3

HasTimer(name) == \E i \in 1..Len(boot.timers) : boot.timers[i].name = name

\* The task settles the pending check of executeMainFlow with "pending game".
PendingGameFound ==
    /\ boot'.flow = "flow"
    /\ boot.awaiting /\ ~boot'.awaiting
    /\ boot'.resolved = "true"

\* C22: the task that finds a pending game sets the fallback timer, and from
\* every state of the executeMainFlow bootstrap in which the pending check is
\* settled the splash screen is eventually removed, no restore-complete
\* notification being delivered.
C22_FallbackFiresReadiness ==
    /\ [][PendingGameFound => (~boot'.splashRemoved /\ HasTimer("splashFallback")')]_vars
    /\ (boot.flow = "flow" /\ boot.balanceResolved /\ ~boot.awaiting) ~> boot.splashRemoved

\* The fallback timer has expired and has removed the splash screen.
C22_Witness ==
    /\ lastOp = [op |-> "timer", name |-> "splashFallback"]
    /\ boot.splashRemoved
    /\ boot.hideCalls = 1
    /\ ~HasTimer("splashFallback")

\* C30: from the start of the executeMainFlow bootstrap, with the socket open
\* or still connecting, the splash screen is eventually removed when the
\* socket opens and the server answers the balance request with a balance and
\* the pending-round query with any response.
C30_SplashEventuallyRemoved ==
    (boot.flow = "flow") ~> boot.splashRemoved

\* The balance request and the pending-round query were transmitted, the
\* query was answered with an unrecognized status and the splash screen is
\* removed.
C30_Witness ==
    /\ boot.flow = "flow"
    /\ Len(sent) = 2
    /\ sent[1] = JSONStringify(BalanceQuery)
    /\ queue = <<>>
    /\ IsGameLoadResponse(lastOp)
    /\ Get(ResponseData(lastOp), "status") = Str("500")
    /\ boot.splashRemoved

\* The task of a pending-round response has restored the reported round.
Restored ==
    /\ Answered(lastOp')
    /\ boot'.flow = "main"
    /\ boot'.resolved = "true"

\* C23: when a round is restored and the response reports a current row r,
\* the stored current row is (rows of the store after the restoration) - 1 - r;
\* when the response reports no current row the stored current row is left as
\* it was.
C23_RowInversion ==
    [][Restored =>
        LET r == Get(ResponseData(lastOp'), "currentRow") IN
        /\ r # Undef => /\ IsNumber(store'.total_rows) /\ IsNumber(r)
                        /\ store'.current_row = Num(store'.total_rows.n - 1 - r.n)
        /\ r = Undef => store'.current_row = store.current_row]_vars

\* A round with reported row 2 has been restored into a grid of 8 rows: the
\* stored row is 5.
C23_Witness ==
    /\ IsGameLoadResponse(lastOp)
    /\ boot.flow = "main" /\ boot.resolved = "true"
    /\ Get(ResponseData(lastOp), "currentRow") = Num(2)
    /\ store.total_rows = Num(8)
    /\ store.current_row = Num(5)

\* The reward a response reports: the last element of a non-empty rowRewards.
LastReward(data) ==
    LET rowRewards == Get(data, "rowRewards") IN
    IF rowRewards # Undef /\ rowRewards.items # <<>>
    THEN rowRewards.items[Len(rowRewards.items)]
    ELSE Num(0)

\* C24: when a round is restored the stored reward is the last element of
\* rowRewards if rowRewards is present and not empty, and 0 if it is empty or
\* absent.
C24_RewardDerivation ==
    [][Restored => store'.reward = LastReward(ResponseData(lastOp'))]_vars

\* A round with rowRewards [3, 7] has been restored: the stored reward is 7.
C24_Witness ==
    /\ IsGameLoadResponse(lastOp)
    /\ boot.flow = "main" /\ boot.resolved = "true"
    /\ Get(ResponseData(lastOp), "rowRewards") = Arr(<<Num(3), Num(7)>>)
    /\ store.reward = Num(7)

\* The restore signal is given by this task.
IsRestoreSignal(op) ==
    op.op = "timer" /\ op.name \in {"restoreMain", "restoreFlow"}

\* C25: in the task that restores a round, a grid listener finds the matrix
\* and the grid restored and the stake, round id, row, reward and started flag
\* not yet; a game-started listener finds every attribute restored; the
\* restore signal is given by a later task, when the store holds a started
\* round.
C25_RestoreOrder ==
    [][/\ Restored =>
            \A i \in 1..Len(storeFired') :
                /\ storeFired'[i].reg = "gameStartedListeners" =>
                       /\ storeSeen'[i] = store'
                       /\ store'.gameStarted
                       /\ store'.roundId = Get(ResponseData(lastOp'), "roundId")
                /\ storeFired'[i].reg = "gridDimensionChangeListeners" =>
                       /\ storeSeen'[i].game_matrix = Get(ResponseData(lastOp'), "revealedMatrix")
                       /\ storeSeen'[i].total_rows = store'.total_rows
                       /\ storeSeen'[i].total_cols = store'.total_cols
                       /\ storeSeen'[i].stakeAmount = store.stakeAmount
                       /\ storeSeen'[i].roundId = store.roundId
                       /\ storeSeen'[i].current_row = store.current_row
                       /\ storeSeen'[i].reward = store.reward
                       /\ storeSeen'[i].gameStarted = store.gameStarted
       /\ Restored => ~IsRestoreSignal(lastOp')
       /\ IsRestoreSignal(lastOp') => (store.gameStarted /\ Truthy(store.roundId))]_vars

\* C26: the pending-round query is sent at most once, and a round is restored
\* only into a store that holds no started round, whatever number of balance
\* responses and pending-round responses the server delivers.
C26_BootstrapOnce ==
    /\ [](Queries(sent, queue) <= 1)
    /\ [][Restored => ~store.gameStarted]_vars

\* The callback cb was invoked through a once wrapper in the task.
RanOnce(log, cb) ==
    \E i \in 1..Len(log) : log[i].cb = cb /\ log[i].via = "once"

\* C27: when the callback of once("k", hChain) has registered h2 for "k"
\* while it ran, h2 is the handler of "k" after the wrapper has returned, and
\* the next frame with key "k" invokes it.
C27_ChainedHandlerSurvives ==
    [][/\ (lastOp'.op = "message" /\ RanOnce(fired', "hChain"))
            => listeners'["k"] = Plain("h2")
       /\ (/\ lastOp.op = "message" /\ RanOnce(fired, "hChain")
           /\ lastOp'.op = "message" /\ EventKey(JSONParse(lastOp'.text).value) = "k"
           /\ fired' # <<>>)
            => fired'[1].cb = "h2"]_vars

\* C28: after a round has been restored the stored current row is a row of
\* the store's grid: 0 <= current_row <= total_rows - 1.
C28_RowWithinGrid ==
    [][Restored =>
        /\ IsNumber(store'.current_row) /\ IsNumber(store'.total_rows)
        /\ 0 <= store'.current_row.n
        /\ store'.current_row.n <= store'.total_rows.n - 1]_vars

\* C29: in the React-mode bootstrap, once a balance response with a balance
\* has been handled (the pending-round query was sent) and the pending check
\* is resolved, the splash screen is eventually removed.
C29_ReactSplashRemoved ==
    (boot.react /\ Queries(sent, queue) >= 1 /\ ~boot.awaiting) ~> boot.splashRemoved

====
